---- MODULE Spec2Model ----
(***************************************************************************)
(* The engine bridge of 2SEARX2COOL: the JSON-RPC protocol loop            *)
(* (engine-bridge/protocol.py), the engine service and its handlers        *)
(* (engine-bridge/engine_service.py) and the engine registry               *)
(* (engine-bridge/engine_registry.py).                                     *)
(*                                                                         *)
(* JSON values are modelled by tokens: an id is "null", "int:0", "str:",   *)
(* "int:7"; a method is a string, Absent, or Unhashable (a JSON array or   *)
(* object, which Python cannot use as a dict key); params is a record      *)
(* giving its shape and, for an object, the keys it carries.               *)
(***************************************************************************)
EXTENDS Integers, Sequences, FiniteSets, TLC

\* Number of lines the client writes to stdin before closing it.
MaxLines == 2
\* Longest result list an adapter or the backend returns in one search.
MaxResults == 1

PARSE_ERROR == -32700
INVALID_REQUEST == -32600
METHOD_NOT_FOUND == -32601
INVALID_PARAMS == -32602
INTERNAL_ERROR == -32603

None == "null"
Absent == "<absent>"
Unhashable == "<list>"
Uuid == "str:uuid4"

\* Engine files found by discovery, in dict insertion order.
EngineOrder == <<"e1", "e2">>
Discovered == {EngineOrder[i] : i \in DOMAIN EngineOrder}

ServiceMethods ==
    {"ping", "list_engines", "search", "search_all",
     "get_engine_info", "enable_engine", "disable_engine"}

----------------------------------------------------------------------------
(* Input alphabet: what one line of stdin can hold. A "garbage" line is    *)
(* text json.loads rejects (a blank line included); a "nonobject" line is  *)
(* JSON that is not an object (an array, a number, null).                  *)

IdVals == {None, "int:0", "str:", "int:7"}
MethodVals == ServiceMethods \cup {Absent, "nope", Unhashable, "custom"}
EngineArgs == {"e1", "ghost", Unhashable}

AbsentParams == [shape |-> "absent", engine |-> Absent, query |-> FALSE]
ListParams == [shape |-> "list", engine |-> Absent, query |-> FALSE]
EmptyDict == [shape |-> "dict", engine |-> Absent, query |-> FALSE]
ParamVals ==
    {AbsentParams, ListParams}
    \cup [shape : {"dict"}, engine : EngineArgs, query : BOOLEAN]
    \cup {[shape |-> "dict", engine |-> Absent, query |-> TRUE]}

NoObject == [jsonrpc |-> FALSE, method |-> Absent, params |-> AbsentParams, id |-> None]
Objects == [jsonrpc : BOOLEAN, method : MethodVals, params : ParamVals, id : IdVals]
Lines ==
    {[kind |-> "garbage", data |-> NoObject], [kind |-> "nonobject", data |-> NoObject]}
    \cup {[kind |-> "object", data |-> o] : o \in Objects}
NoLine == [kind |-> "none", data |-> NoObject]
EofLine == [kind |-> "eof", data |-> NoObject]

----------------------------------------------------------------------------
(* protocol.py: JsonRpcRequest, JsonRpcResponse                            *)

\* Python truth value of an id: None, 0 and "" are falsy.
TruthyId(id) == id \notin {None, "int:0", "str:"}
\* Python truth value of params: an empty dict (or list) is falsy.
TruthyParams(p) == p.shape = "list" \/ (p.shape = "dict" /\ p # EmptyDict)

JsonRpcRequest(method, params, id) ==
    [method |-> method,
     params |-> IF TruthyParams(params) THEN params ELSE EmptyDict,
     id |-> IF TruthyId(id) THEN id ELSE Uuid]

from_dict(data) ==
    JsonRpcRequest(IF data.method = Absent THEN "" ELSE data.method,
                   IF data.params.shape = "absent" THEN EmptyDict ELSE data.params,
                   data.id)

NoRequest == [method |-> "", params |-> EmptyDict, id |-> None]

NoResult == [handler |-> "none", success |-> FALSE, error |-> "", engine |-> Absent,
             enabled |-> FALSE, count |-> 0, results |-> <<>>, enc |-> TRUE,
             results_by_engine |-> <<>>]
NoError == [code |-> 0, message |-> "", data |-> "none"]

JsonRpcResponse(result, error, id) == [result |-> result, error |-> error, id |-> id]
ResponseSuccess(result, id) == JsonRpcResponse(result, NoError, id)
ResponseError(code, message, data, id) ==
    JsonRpcResponse(NoResult, [code |-> code, message |-> message, data |-> data], id)
NoResponse == JsonRpcResponse(NoResult, NoError, None)

to_dict(response) ==
    IF response.error # NoError
    THEN [jsonrpc |-> "2.0", id |-> response.id, error |-> response.error]
    ELSE [jsonrpc |-> "2.0", id |-> response.id, result |-> response.result]

\* json.dumps raises on a value that is not a JSON type (a datetime, a set).
JsonEncodable(d) == IF "result" \in DOMAIN d THEN d.result.enc ELSE TRUE

\* The text written after each response: a backslash and an n, not a newline.
Terminator == "\\n"

----------------------------------------------------------------------------
(* engine_registry.py: EngineInfo, EngineRegistry                          *)

EngineInfo(name) == [name |-> name, enabled |-> TRUE]
NoEngine == [name |-> None, enabled |-> FALSE]

\* dict.get: the entry, or None for a name that is not a key.
get_engine(engs, name) == IF name \in DOMAIN engs THEN engs[name] ELSE NoEngine

RECURSIVE SelectEnabled(_, _)
SelectEnabled(engs, i) ==
    IF i > Len(EngineOrder) THEN <<>>
    ELSE LET n == EngineOrder[i] IN
         (IF n \in DOMAIN engs /\ engs[n].enabled THEN <<n>> ELSE <<>>)
         \o SelectEnabled(engs, i + 1)

get_enabled_engines(engs) == SelectEnabled(engs, 1)

\* What an adapter's response() or the backend's JSON holds for one result:
\* the engine tag it carries (if any) and whether its values are JSON types.
RawTags == {"other"}
RawItems == [engine : RawTags, enc : BOOLEAN]
ListsUpTo(n) == UNION {[1..k -> RawItems] : k \in 0..n}
RawLists == ListsUpTo(MaxResults)
AllEnc(results) == \A i \in DOMAIN results : results[i].enc

\* What the world outside does to one single-engine search: which branch of
\* EngineRegistry.search ends it, and the list that branch obtains.
OkPaths == {"searxng_ok", "direct_ok", "nofetch_ok"}
FailPaths == {"request_raises", "direct_fail", "nofetch_raises"}
OutcomesOver(lists) ==
    {[path |-> "searxng_ok", raw |-> r] : r \in {l \in lists : AllEnc(l)}}
    \cup [path : OkPaths \ {"searxng_ok"}, raw : lists]
    \cup [path : FailPaths, raw : {<<>>}]
Outcomes == OutcomesOver(RawLists)

\* search without its "for result in results" loops: results keep their tag.
Stamp_AsReturned(results, engine_name) == results

Stamp(results, engine_name) ==
    [i \in DOMAIN results |-> [results[i] EXCEPT !.engine = engine_name]]

Raised(error, fetches) ==
    [raised |-> TRUE, error |-> error, results |-> <<>>, fetches |-> fetches]
Returned(results, fetches) ==
    [raised |-> FALSE, error |-> "", results |-> results, fetches |-> fetches]

\* Does search get past its guard to the engine's adapter?
Reaches(engs, engine_name) ==
    /\ engine_name # Unhashable
    /\ get_engine(engs, engine_name) # NoEngine
    /\ get_engine(engs, engine_name).enabled
Probe(engs, engine_name, oc) ==
    IF Reaches(engs, engine_name) THEN <<[engine |-> engine_name, oc |-> oc]>> ELSE <<>>

\* EngineRegistry.search past its guard, under outcome oc.
SearchBody(engine_name, oc) ==
    CASE oc.path = "searxng_ok" -> Returned(Stamp(oc.raw, engine_name), 1)
      [] oc.path = "request_raises" -> Raised("adapter request failed", 1)
      [] oc.path = "direct_ok" -> Returned(Stamp(oc.raw, engine_name), 2)
      [] oc.path = "direct_fail" -> Returned(<<>>, 2)
      [] oc.path = "nofetch_ok" -> Returned(Stamp(oc.raw, engine_name), 1)
      [] oc.path = "nofetch_raises" -> Raised("adapter response failed", 1)

\* EngineRegistry.search under outcome oc.
RegistrySearch(engs, engine_name, oc) ==
    IF engine_name = Unhashable THEN Raised("TypeError: unhashable type", 0)
    ELSE LET engine == get_engine(engs, engine_name) IN
    IF engine = NoEngine \/ ~engine.enabled
    THEN Raised("Engine not found or disabled", 0)
    ELSE SearchBody(engine_name, oc)

\* search_all without the try around each engine: the first exception ends
\* the loop.
RECURSIVE SearchAllFrom_NoTry(_, _, _, _)
SearchAllFrom_NoTry(engs, enabled, ocs, i) ==
    IF i > Len(enabled) THEN [results |-> <<>>, fetches |-> 0, searched |-> <<>>]
    ELSE LET r == RegistrySearch(engs, enabled[i], ocs[enabled[i]])
             rest == IF r.raised
                     THEN [results |-> <<>>, fetches |-> 0, searched |-> <<>>]
                     ELSE SearchAllFrom_NoTry(engs, enabled, ocs, i + 1)
         IN [results |-> r.results \o rest.results,
             fetches |-> r.fetches + rest.fetches,
             searched |-> Probe(engs, enabled[i], ocs[enabled[i]]) \o rest.searched]

\* EngineRegistry.search_all: engines i.. of the enabled list, in order.
RECURSIVE SearchAllFrom(_, _, _, _)
SearchAllFrom(engs, enabled, ocs, i) ==
    IF i > Len(enabled) THEN [results |-> <<>>, fetches |-> 0, searched |-> <<>>]
    ELSE LET r == RegistrySearch(engs, enabled[i], ocs[enabled[i]])
             rest == SearchAllFrom(engs, enabled, ocs, i + 1)
         IN [results |-> (IF r.raised THEN <<>> ELSE r.results) \o rest.results,
             fetches |-> r.fetches + rest.fetches,
             searched |-> Probe(engs, enabled[i], ocs[enabled[i]]) \o rest.searched]

RegistrySearchAll(engs, ocs) == SearchAllFrom(engs, get_enabled_engines(engs), ocs, 1)

----------------------------------------------------------------------------
(* State                                                                   *)

VARIABLES
    pc,        \* where the process is: "init", "read", "handle", "send", "done", "crashed"
    handlers,  \* JsonRpcProtocol.handlers: the registered method names
    engines,   \* EngineRegistry.engines: name -> EngineInfo
    pending,   \* lines of stdin not yet read
    line,      \* the line the last readline returned
    request,   \* run's local request
    response,  \* run's local response
    stdout,    \* what was written to stdout since that line was read
    stderr,    \* send failures reported on stderr since that line was read
    invoked,   \* how often a handler body was entered since that line was read
    fetches,   \* outbound HTTP requests made since that line was read
    searched,  \* adapters the registry ran for the request being handled, each with how it went
    dir,       \* the engines directory EngineRegistry.__init__ is given
    todo,      \* files of the directory _discover_engines' loop has yet to visit
    log,       \* calls made on the service directly and answered, oldest first
    keyed,     \* a request, a variant of it, and the cache keys generated for both
    redis_client, \* CacheService.redis_client is not None
    redis,     \* the keys of the Redis database behind it
    clock,     \* seconds gone by
    last,      \* the CacheService call made last, with what it returned
    nops,      \* how many steps the cache has seen
    targets,   \* search_all's list of enabled engines, as get_enabled_engines returned it
    cursor,    \* position of search_all's loop in that list (0: no search_all is running)
    all_results, \* search_all's local all_results
    unified,   \* the unified_search call made last, with what it returned
    getters    \* callers inside CacheService.get, and what the finished gets returned

loopVars == <<pc, handlers, engines, pending, line, request, response,
              stdout, stderr, invoked, fetches, searched>>
discoverVars == <<dir, todo>>
\* What the protocol loop never touches.
serviceVars == <<log>>
cacheVars == <<keyed, redis_client, redis, clock, last, nops>>
fanVars == <<targets, cursor, all_results>>
connectorVars == <<unified>>
getterVars == <<getters>>
nonLoopVars == <<discoverVars, serviceVars, cacheVars, fanVars, connectorVars, getterVars>>
vars == <<loopVars, nonLoopVars>>

\* The service is past discovery: nothing is left of the scan.
NoDir == [exists |-> TRUE, files |-> <<>>]
Discovery_Over == dir = NoDir /\ todo = {}

\* No search_all is running step by step, and no connector has been called.
FanOut_Idle == targets = <<>> /\ cursor = 0 /\ all_results = <<>>
Connector_Unused == unified = <<>>
Getters_None == getters = <<>>
Others_Unused == FanOut_Idle /\ Connector_Unused /\ Getters_None

\* No CacheService has been constructed (get_cache_service was never called).
Cache_Unused ==
    /\ keyed = <<>>
    /\ redis_client = FALSE
    /\ redis = <<>>
    /\ clock = 0
    /\ last = <<>>
    /\ nops = 0

\* EngineService.__init__ has run: the registry holds the discovered engines,
\* all enabled, and the seven service handlers are registered.
Init ==
    /\ pc = "init"
    /\ handlers = ServiceMethods
    /\ engines = [n \in Discovered |-> EngineInfo(n)]
    /\ pending \in 0..MaxLines
    /\ line = NoLine
    /\ request = NoRequest
    /\ response = NoResponse
    /\ stdout = <<>>
    /\ stderr = 0
    /\ invoked = 0
    /\ fetches = 0
    /\ searched = <<>>
    /\ Discovery_Over
    /\ log = <<>>
    /\ Cache_Unused
    /\ Others_Unused

----------------------------------------------------------------------------
(* protocol.py: JsonRpcProtocol                                            *)

\* register_handler, called by the embedding program before the loop starts.
RegisterHandler(method) ==
    /\ pc = "init"
    /\ method \notin handlers
    /\ handlers' = handlers \cup {method}
    /\ UNCHANGED <<nonLoopVars, pc, engines, pending, line, request, response,
                   stdout, stderr, invoked, fetches, searched>>

\* EngineService.run: enter the protocol loop.
Run ==
    /\ pc = "init"
    /\ pc' = "read"
    /\ UNCHANGED <<nonLoopVars, handlers, engines, pending, line, request, response,
                   stdout, stderr, invoked, fetches, searched>>

\* send_response applied to an output stream: the stream after the call and
\* whether json.dumps failed (the failure is reported on stderr instead).
Chunk(response_) == [body |-> to_dict(response_), term |-> Terminator]
SendFails(response_) == ~JsonEncodable(to_dict(response_))
Sent(out, response_) ==
    IF SendFails(response_) THEN out ELSE Append(out, Chunk(response_))

\* read_request at end of stream: readline returns "", run breaks.
ReadEof ==
    /\ pc = "read"
    /\ pending = 0
    /\ line' = EofLine
    /\ request' = NoRequest
    /\ pc' = "done"
    /\ stdout' = <<>>
    /\ stderr' = 0
    /\ invoked' = 0
    /\ fetches' = 0
    /\ searched' = <<>>
    /\ UNCHANGED <<nonLoopVars, handlers, engines, pending, response>>

\* read_request with the JSONDecodeError clause lost: a line that is not JSON
\* falls through to the general except clause.
ReadResult_NoDecodeClause(l) ==
    CASE l.kind \in {"garbage", "nonobject"} ->
           [request |-> NoRequest, returned |-> FALSE,
            reply |-> <<ResponseError(INTERNAL_ERROR, "Internal error", "str(e)", None)>>]
      [] l.kind = "object" ->
           [request |-> from_dict(l.data), returned |-> TRUE, reply |-> <<>>]

\* What read_request does with a line: the request it returns, or None
\* after answering with an error.
ReadResult(l) ==
    CASE l.kind = "garbage" ->
           [request |-> NoRequest, returned |-> FALSE,
            reply |-> <<ResponseError(PARSE_ERROR, "Parse error", "str(e)", None)>>]
      [] l.kind = "nonobject" ->
           [request |-> NoRequest, returned |-> FALSE,
            reply |-> <<ResponseError(INTERNAL_ERROR, "Internal error", "str(e)", None)>>]
      [] l.kind = "object" ->
           [request |-> from_dict(l.data), returned |-> TRUE, reply |-> <<>>]

\* read_request on a line, and run's test of what it returned.
ReadRequest ==
    /\ pc = "read"
    /\ pending > 0
    /\ \E l \in Lines :
         LET r == ReadResult(l) IN
         /\ line' = l
         /\ pending' = pending - 1
         /\ request' = r.request
         /\ stdout' = IF r.reply = <<>> THEN <<>> ELSE Sent(<<>>, r.reply[1])
         /\ pc' = IF r.returned THEN "handle" ELSE "done"
    /\ stderr' = 0
    /\ invoked' = 0
    /\ fetches' = 0
    /\ searched' = <<>>
    /\ UNCHANGED <<nonLoopVars, handlers, engines, response>>

\* handler(**request.params): does the call bind the handler's parameters?
\* A non-mapping, a missing required name or an unexpected name is a TypeError.
Binds(method, params) ==
    /\ params.shape = "dict"
    /\ CASE method \in {"ping", "list_engines"} -> params = EmptyDict
         [] method = "search" -> params.engine # Absent /\ params.query
         [] method = "search_all" -> params.query
         [] method \in {"get_engine_info", "enable_engine", "disable_engine"} ->
              params.engine # Absent /\ ~params.query
         [] OTHER -> TRUE

\* handle_request returns; run goes on to send_response.
Reply(response_) ==
    /\ response' = response_
    /\ pc' = "send"

Dispatching(method) ==
    /\ pc = "handle"
    /\ request.method = method
    /\ method \in handlers
    /\ Binds(method, request.params)

InvalidParamsError(id) ==
    ResponseError(INVALID_PARAMS, "Invalid parameters", "str(e)", id)
InternalErrorResponse(id) ==
    ResponseError(INTERNAL_ERROR, "Internal error", "error+traceback", id)

\* handle_request on a method that cannot be a dict key (a JSON array or
\* object): the membership test raises outside the try, run dies.
HandleUnhashableMethod ==
    /\ pc = "handle"
    /\ request.method = Unhashable
    /\ pc' = "crashed"
    /\ UNCHANGED <<nonLoopVars, handlers, engines, pending, line, request, response,
                   stdout, stderr, invoked, fetches, searched>>

MethodNotFound ==
    /\ pc = "handle"
    /\ request.method # Unhashable
    /\ request.method \notin handlers
    /\ Reply(ResponseError(METHOD_NOT_FOUND, "Method not found", "none", request.id))
    /\ UNCHANGED <<nonLoopVars, handlers, engines, pending, line, request,
                   stdout, stderr, invoked, fetches, searched>>

\* The call raises TypeError before the handler body runs.
InvalidParams ==
    /\ pc = "handle"
    /\ request.method # Unhashable
    /\ request.method \in handlers
    /\ ~Binds(request.method, request.params)
    /\ Reply(InvalidParamsError(request.id))
    /\ UNCHANGED <<nonLoopVars, handlers, engines, pending, line, request,
                   stdout, stderr, invoked, fetches, searched>>

\* The except clauses of handle_request: what an exception escaping the
\* handler call becomes.
Caught(exception, id) ==
    IF exception = "TypeError" THEN InvalidParamsError(id) ELSE InternalErrorResponse(id)

----------------------------------------------------------------------------
(* engine_service.py: the handlers, each run through handle_request        *)

HandlePing ==
    /\ Dispatching("ping")
    /\ invoked' = invoked + 1
    /\ Reply(ResponseSuccess(
           [NoResult EXCEPT !.handler = "ping", !.success = TRUE,
                            !.count = Cardinality(DOMAIN engines)],
           request.id))
    /\ UNCHANGED <<nonLoopVars, handlers, engines, pending, line, request, stdout, stderr, fetches, searched>>

\* The descriptors hold the adapters' categories and about values, taken here
\* to be JSON types (lists and dicts of strings).
HandleListEngines ==
    /\ Dispatching("list_engines")
    /\ invoked' = invoked + 1
    /\ Reply(ResponseSuccess(
           [NoResult EXCEPT !.handler = "list_engines", !.success = TRUE,
                            !.count = Cardinality(DOMAIN engines)],
           request.id))
    /\ UNCHANGED <<nonLoopVars, handlers, engines, pending, line, request, stdout, stderr, fetches, searched>>

\* handle_search: every exception of the registry becomes a success=False
\* dict, which handle_request wraps as a result.
SearchResult(engine, r) ==
    IF r.raised
    THEN [NoResult EXCEPT !.handler = "search", !.success = FALSE,
                          !.engine = engine, !.error = r.error]
    ELSE [NoResult EXCEPT !.handler = "search", !.success = TRUE,
                          !.engine = engine, !.results = r.results,
                          !.count = Len(r.results), !.enc = AllEnc(r.results)]

HandleSearch ==
    /\ Dispatching("search")
    /\ invoked' = invoked + 1
    /\ \E oc \in Outcomes :
         LET r == RegistrySearch(engines, request.params.engine, oc) IN
         /\ fetches' = fetches + r.fetches
         /\ searched' = searched \o Probe(engines, request.params.engine, oc)
         /\ Reply(ResponseSuccess(SearchResult(request.params.engine, r), request.id))
    /\ UNCHANGED <<nonLoopVars, handlers, engines, pending, line, request, stdout, stderr>>

\* handle_search_all that starts a group anew with every result.
GroupByEngine_LastOnly(results) ==
    [e \in {results[i].engine : i \in DOMAIN results} |->
       <<results[CHOOSE i \in DOMAIN results :
                   /\ results[i].engine = e
                   /\ \A j \in DOMAIN results : results[j].engine = e => j <= i]>>]

\* handle_search_all's loop over the merged list from result i on: a result is
\* appended to the group of its engine tag, which is created when first met.
RECURSIVE GroupFrom(_, _, _)
GroupFrom(results, i, groups) ==
    IF i > Len(results) THEN groups
    ELSE LET engine == results[i].engine
             old == IF engine \in DOMAIN groups THEN groups[engine] ELSE <<>>
         IN GroupFrom(results, i + 1,
                      [e \in DOMAIN groups \cup {engine} |->
                         IF e = engine THEN Append(old, results[i]) ELSE groups[e]])

\* handle_search_all groups the merged list by each result's engine tag.
GroupByEngine(results) == GroupFrom(results, 1, <<>>)

\* handle_search_all that treats an empty merge as a failure.
SearchAllResult_EmptyFails(r) ==
    IF r.results = <<>>
    THEN [NoResult EXCEPT !.handler = "search_all", !.error = "no results"]
    ELSE [NoResult EXCEPT !.handler = "search_all", !.success = TRUE,
                          !.results = r.results, !.count = Len(r.results),
                          !.enc = AllEnc(r.results),
                          !.results_by_engine = GroupByEngine(r.results)]

SearchAllResult(r) ==
    [NoResult EXCEPT !.handler = "search_all", !.success = TRUE,
                     !.results = r.results, !.count = Len(r.results),
                     !.enc = AllEnc(r.results),
                     !.results_by_engine = GroupByEngine(r.results)]

HandleSearchAll ==
    /\ Dispatching("search_all")
    /\ invoked' = invoked + 1
    /\ \E ocs \in [Discovered -> Outcomes] :
         LET r == RegistrySearchAll(engines, ocs) IN
         /\ fetches' = fetches + r.fetches
         /\ searched' = searched \o r.searched
         /\ Reply(ResponseSuccess(SearchAllResult(r), request.id))
    /\ UNCHANGED <<nonLoopVars, handlers, engines, pending, line, request, stdout, stderr>>

NotFoundResult(handler, engine) ==
    [NoResult EXCEPT !.handler = handler, !.success = FALSE, !.engine = engine,
                     !.error = "Engine not found"]

\* get_engine_info, enable_engine and disable_engine look the name up first;
\* a name that cannot be hashed makes dict.get raise TypeError in the body.
HandleGetEngineInfo ==
    /\ Dispatching("get_engine_info")
    /\ invoked' = invoked + 1
    /\ LET engine == request.params.engine IN
       Reply(IF engine = Unhashable THEN Caught("TypeError", request.id)
             ELSE IF get_engine(engines, engine) = NoEngine
             THEN ResponseSuccess(NotFoundResult("get_engine_info", engine), request.id)
             ELSE ResponseSuccess(
                      [NoResult EXCEPT !.handler = "get_engine_info", !.success = TRUE,
                                       !.engine = engine,
                                       !.enabled = engines[engine].enabled],
                      request.id))
    /\ UNCHANGED <<nonLoopVars, handlers, engines, pending, line, request, stdout, stderr, fetches, searched>>

\* enable_engine that only ever clears the flag.
WithEnabled_NeverSet(engs, engine, flag) ==
    [engs EXCEPT ![engine].enabled = engs[engine].enabled /\ flag]

\* A toggle that writes the flag of every engine of the registry.
WithEnabled_Everywhere(engs, engine, flag) ==
    [n \in DOMAIN engs |-> [engs[n] EXCEPT !.enabled = flag]]

\* engine.enabled = True / False on the registry's entry.
WithEnabled(engs, engine, flag) == [engs EXCEPT ![engine].enabled = flag]

SetEnabled(handler, flag) ==
    /\ Dispatching(handler)
    /\ invoked' = invoked + 1
    /\ LET engine == request.params.engine IN
       IF engine = Unhashable
       THEN /\ Reply(Caught("TypeError", request.id))
            /\ UNCHANGED engines
       ELSE IF get_engine(engines, engine) = NoEngine
       THEN /\ Reply(ResponseSuccess(NotFoundResult(handler, engine), request.id))
            /\ UNCHANGED engines
       ELSE /\ engines' = WithEnabled(engines, engine, flag)
            /\ Reply(ResponseSuccess(
                   [NoResult EXCEPT !.handler = handler, !.success = TRUE,
                                    !.engine = engine, !.enabled = flag],
                   request.id))
    /\ UNCHANGED <<nonLoopVars, handlers, pending, line, request, stdout, stderr, fetches, searched>>

HandleEnableEngine == SetEnabled("enable_engine", TRUE)
HandleDisableEngine == SetEnabled("disable_engine", FALSE)

\* A handler the embedding program registered: its body may return a value
\* json.dumps can encode, return one it cannot, or raise.
CustomOutcomes == {"returns", "returns_unencodable", "TypeError", "Exception"}

HandleCustom ==
    /\ Dispatching("custom")
    /\ invoked' = invoked + 1
    /\ \E o \in CustomOutcomes :
         Reply(CASE o = "returns" ->
                      ResponseSuccess([NoResult EXCEPT !.handler = "custom",
                                                       !.success = TRUE], request.id)
                 [] o = "returns_unencodable" ->
                      ResponseSuccess([NoResult EXCEPT !.handler = "custom",
                                                       !.success = TRUE,
                                                       !.enc = FALSE], request.id)
                 [] OTHER -> Caught(o, request.id))
    /\ UNCHANGED <<nonLoopVars, handlers, engines, pending, line, request, stdout, stderr, fetches, searched>>

\* run: send_response(response), then back to the top of the loop.
SendResponse ==
    /\ pc = "send"
    /\ stdout' = Sent(stdout, response)
    /\ stderr' = IF SendFails(response) THEN stderr + 1 ELSE stderr
    /\ pc' = "read"
    /\ searched' = <<>>
    /\ UNCHANGED <<nonLoopVars, handlers, engines, pending, line, request, response,
                   invoked, fetches>>

Next ==
    \/ RegisterHandler("custom")
    \/ Run
    \/ ReadEof
    \/ ReadRequest
    \/ HandleUnhashableMethod
    \/ MethodNotFound
    \/ InvalidParams
    \/ HandlePing
    \/ HandleListEngines
    \/ HandleSearch
    \/ HandleSearchAll
    \/ HandleGetEngineInfo
    \/ HandleEnableEngine
    \/ HandleDisableEngine
    \/ HandleCustom
    \/ SendResponse

Spec == Init /\ [][Next]_vars

----------------------------------------------------------------------------
(* Properties                                                              *)

ENGINE_NOT_FOUND == -32002

\* A request envelope as the wire format gives it: version member present,
\* method a string, params absent or an object.
WellFormed(data) ==
    /\ data.jsonrpc
    /\ data.method \notin {Absent, Unhashable}
    /\ data.params.shape # "list"

IsObject == line.kind = "object"
\* handle_request has returned for the line read last.
Handled == IsObject /\ pc \in {"send", "read"}
\* ... and the line was a well-formed request envelope.
HandledRequest == Handled /\ WellFormed(line.data)
\* send_response has returned for the line read last.
Served == IsObject /\ pc = "read"
IsError(response_) == response_.error # NoError
WroteOne == Len(stdout) = 1
Dispatchable ==
    /\ IsObject
    /\ request.method \in handlers
    /\ Binds(request.method, request.params)

\* C1: a request whose id is null or absent (a notification) has its handler
\* invoked exactly once, and no response is written to the output for it.
C1_NotificationGetsNoResponse ==
    (Served /\ WellFormed(line.data) /\ line.data.id = None) =>
        /\ stdout = <<>>
        /\ Dispatchable => invoked = 1

\* C2: protocol errors never end the loop: run stops reading only at end of
\* stream, so lines that follow a malformed line are still read and answered.
C2_StopsOnlyAtEndOfStream ==
    pc \in {"done", "crashed"} => (line = EofLine /\ pending = 0)

\* C3: for a line that is not valid JSON, exactly one error response with
\* code -32700 is written and no handler is invoked for that line.
C3_ParseErrorWithoutDispatch ==
    line.kind = "garbage" =>
        /\ WroteOne
        /\ "error" \in DOMAIN stdout[1].body
        /\ stdout[1].body.error.code = PARSE_ERROR
        /\ invoked = 0
        /\ pc = "done"

C3_Witness ==
    /\ line.kind = "garbage"
    /\ WroteOne
    /\ stdout[1].body.error.code = PARSE_ERROR
    /\ invoked = 0

\* C4: a request whose method is missing or not in the handler table is
\* answered by an error envelope with code -32601 carrying the request's id;
\* no handler is invoked and the registry is unchanged.
C4_MethodNotFoundEchoesId ==
    [][(/\ pc = "handle"
        /\ line.data.jsonrpc
        /\ line.data.id # None
        /\ (line.data.method = Absent \/ line.data.method \notin handlers))
       => (/\ pc' = "send"
           /\ IsError(response')
           /\ response'.error.code = METHOD_NOT_FOUND
           /\ response'.id = line.data.id
           /\ invoked' = 0
           /\ engines' = engines)]_vars

\* C5: the response written for a request with a non-null id (0 and the
\* empty string included) carries exactly that id.
C5_ResponseCarriesRequestId ==
    (Served /\ WellFormed(line.data) /\ line.data.id # None) =>
        \A i \in DOMAIN stdout : stdout[i].body.id = line.data.id

\* C6: search with an engine name that is absent from the registry yields an
\* error envelope with the domain-specific not-found code, not a success
\* envelope and not the internal error -32603.
C6_UnknownEngineIsRpcError ==
    (/\ HandledRequest
     /\ request.method = "search"
     /\ Dispatchable
     /\ request.params.engine # Unhashable
     /\ request.params.engine \notin DOMAIN engines)
    => (/\ IsError(response)
        /\ response.error.code # INTERNAL_ERROR
        /\ response.error.code = ENGINE_NOT_FOUND)

\* What a response tells the caller about a domain error: the error code of
\* the envelope and the error text of the result.
DomainError(response_) == [code |-> response_.error.code, error |-> response_.result.error]
\* The answer handle_search gives, in the current state, for an absent name.
AbsentEngineAnswer ==
    ResponseSuccess(
        SearchResult("ghost", RegistrySearch(engines, "ghost", [path |-> "searxng_ok", raw |-> <<>>])),
        request.id)

\* C7: a single-engine search reports an absent engine as EngineNotFound and a
\* present but disabled engine as EngineDisabled; the two reports differ, and
\* no outbound fetch is made in either case.
C7_NotFoundDiffersFromDisabled ==
    (/\ HandledRequest
     /\ request.method = "search"
     /\ Dispatchable
     /\ request.params.engine \in DOMAIN engines
     /\ ~engines[request.params.engine].enabled)
    => (/\ DomainError(response) # DomainError(AbsentEngineAnswer)
        /\ fetches = 0)

\* C8: a JSON object that is not a valid request envelope (it lacks the
\* protocol-version member) is answered with -32600 and is not dispatched.
C8_MissingVersionIsInvalidRequest ==
    (Handled /\ ~line.data.jsonrpc /\ Dispatchable) =>
        /\ IsError(response)
        /\ response.error.code = INVALID_REQUEST
        /\ invoked = 0

\* C9: -32602 is returned if and only if the request's named parameters do
\* not match the handler's parameter shape; every other failure raised while
\* the handler runs yields -32603 with the cause in the error's data.
C9_InvalidParamsIffShapeMismatch ==
    (HandledRequest /\ request.method \in handlers) =>
        /\ (IsError(response) /\ response.error.code = INVALID_PARAMS)
              <=> ~Binds(request.method, request.params)
        /\ (IsError(response) /\ response.error.code # INVALID_PARAMS)
              => (response.error.code = INTERNAL_ERROR /\ response.error.data # "none")

\* C10: for a well-formed request with an id, exactly one response is written
\* before the next request is read, also when the handler's return value
\* cannot be encoded as JSON.
C10_OneResponsePerRequest ==
    (Served /\ WellFormed(line.data) /\ line.data.id # None) => WroteOne


----------------------------------------------------------------------------
(* engine_registry.py: discovery of the adapters (EngineRegistry.__init__)  *)

MaxFiles == 3

\* The *.py files a directory can hold, by stem, and what executing one does:
\* it defines request and response, lacks one of them, or raises.
FileNames == {"e1", "e2", "e3", "__init__", "base_music"}
Contents == {"adapter", "no_request", "no_response", "raises"}
Dirs ==
    {[exists |-> FALSE, files |-> <<>>]}
    \cup {[exists |-> TRUE, files |-> f] :
            f \in UNION {[D -> Contents] :
                           D \in {X \in SUBSET FileNames : Cardinality(X) <= MaxFiles}}}

\* name.startswith("__") or name == "base_music.py": never loaded.
SkippedNames == {"__init__", "base_music"}

\* _load_engine_info with the test for response lost.
load_engine_info_RequestOnly(name, content) ==
    CASE content = "raises" -> [raised |-> TRUE, info |-> NoEngine]
      [] content = "no_request" -> [raised |-> FALSE, info |-> NoEngine]
      [] OTHER -> [raised |-> FALSE, info |-> EngineInfo(name)]

\* _load_engine_info: exec_module may raise; a module without request or
\* without response gives None; otherwise the descriptor, named by the stem.
load_engine_info(name, content) ==
    CASE content = "raises" -> [raised |-> TRUE, info |-> NoEngine]
      [] content \in {"no_request", "no_response"} -> [raised |-> FALSE, info |-> NoEngine]
      [] content = "adapter" -> [raised |-> FALSE, info |-> EngineInfo(name)]

\* One pass of the loop body of _discover_engines over file f.
Visit(engs, f, content) ==
    IF f \in SkippedNames THEN engs
    ELSE LET r == load_engine_info(f, content) IN
         IF r.raised \/ r.info = NoEngine THEN engs
         ELSE [n \in DOMAIN engs \cup {r.info.name} |->
                 IF n = r.info.name THEN r.info ELSE engs[n]]

\* EngineRegistry.list_engines: one descriptor per entry.
list_engines(engs) == {engs[n] : n \in DOMAIN engs}

NoEngines == [n \in {} |-> NoEngine]

\* EngineRegistry.__init__ is entered with some directory; the protocol object
\* is not built yet.
InitDiscover ==
    /\ pc = "discover"
    /\ dir \in Dirs
    /\ todo = {}
    /\ engines = NoEngines
    /\ handlers = {}
    /\ pending = 0
    /\ line = NoLine
    /\ request = NoRequest
    /\ response = NoResponse
    /\ stdout = <<>>
    /\ stderr = 0
    /\ invoked = 0
    /\ fetches = 0
    /\ searched = <<>>
    /\ log = <<>>
    /\ Cache_Unused
    /\ Others_Unused

nonDiscoverVars == <<handlers, pending, line, request, response,
                     stdout, stderr, invoked, fetches, searched, log, cacheVars,
                     fanVars, connectorVars, getterVars>>

\* The directory does not exist: ValueError leaves the constructor.
DiscoverMissing ==
    /\ pc = "discover"
    /\ ~dir.exists
    /\ pc' = "raised"
    /\ UNCHANGED <<dir, todo, engines, nonDiscoverVars>>

\* glob("*.py") lists the directory.
DiscoverGlob ==
    /\ pc = "discover"
    /\ dir.exists
    /\ todo' = DOMAIN dir.files
    /\ pc' = "scan"
    /\ UNCHANGED <<dir, engines, nonDiscoverVars>>

\* The loop takes the next file, in whatever order glob yields them.
DiscoverFile ==
    /\ pc = "scan"
    /\ \E f \in todo :
         /\ todo' = todo \ {f}
         /\ engines' = Visit(engines, f, dir.files[f])
    /\ UNCHANGED <<pc, dir, nonDiscoverVars>>

\* The loop is exhausted: the constructor returns.
DiscoverDone ==
    /\ pc = "scan"
    /\ todo = {}
    /\ pc' = "ready"
    /\ UNCHANGED <<dir, todo, engines, nonDiscoverVars>>

NextDiscover ==
    \/ DiscoverMissing
    \/ DiscoverGlob
    \/ DiscoverFile
    \/ DiscoverDone

SpecDiscover == InitDiscover /\ [][NextDiscover]_vars

\* The files the scan considers, and those of them that load and define both
\* entry points.
Candidates(d) == DOMAIN d.files \ SkippedNames
Loadable(d) == {f \in Candidates(d) : d.files[f] = "adapter"}

----------------------------------------------------------------------------
(* engine_service.py: the handlers called one after another on one service, *)
(* without the line loop (protocol.handle_request applied to a request)     *)

MaxCalls == 3

\* The registries discovery can leave behind, all engines enabled.
Registries == {[n \in D |-> EngineInfo(n)] : D \in SUBSET Discovered}

ServiceEngineArgs == {"e1", "e2", "ghost"}
ServiceCalls ==
    {[method |-> "search_all", params |-> [shape |-> "dict", engine |-> Absent, query |-> TRUE]]}
    \cup {[method |-> m, params |-> [shape |-> "dict", engine |-> e, query |-> FALSE]] :
            m \in {"enable_engine", "disable_engine", "get_engine_info"},
            e \in ServiceEngineArgs}

InitService ==
    /\ pc = "idle"
    /\ handlers = ServiceMethods
    /\ engines \in Registries
    /\ log = <<>>
    /\ Cache_Unused
    /\ Others_Unused
    /\ pending = 0
    /\ line = NoLine
    /\ request = NoRequest
    /\ response = NoResponse
    /\ stdout = <<>>
    /\ stderr = 0
    /\ invoked = 0
    /\ fetches = 0
    /\ searched = <<>>
    /\ Discovery_Over

\* A caller builds a request and passes it to handle_request.
Call ==
    /\ pc = "idle"
    /\ Len(log) < MaxCalls
    /\ \E c \in ServiceCalls : request' = JsonRpcRequest(c.method, c.params, "int:7")
    /\ pc' = "handle"
    /\ invoked' = 0
    /\ fetches' = 0
    /\ searched' = <<>>
    /\ UNCHANGED <<discoverVars, cacheVars, fanVars, connectorVars, getterVars, log, handlers, engines, pending, line,
                   response, stdout, stderr>>

\* handle_request has returned the response to the caller.
Return ==
    /\ pc = "send"
    /\ log' = Append(log, [method |-> request.method, engine |-> request.params.engine])
    /\ pc' = "idle"
    /\ response' = NoResponse
    /\ searched' = <<>>
    /\ UNCHANGED <<discoverVars, cacheVars, fanVars, connectorVars, getterVars, handlers, engines, pending, line, request,
                   stdout, stderr, invoked, fetches>>

NextService ==
    \/ Call
    \/ HandleSearchAll
    \/ HandleGetEngineInfo
    \/ HandleEnableEngine
    \/ HandleDisableEngine
    \/ Return

SpecService == InitService /\ [][NextService]_vars


\* handle_search_all has returned to handle_request, which has built the response.
SearchedAll == pc = "send" /\ request.method = "search_all"
Enabled == {n \in DOMAIN engines : engines[n].enabled}
Queried == {searched[i].engine : i \in DOMAIN searched}
Results == response.result.results

\* The toggles answered so far for engine n, and the flag the last one asked for
\* (an engine starts enabled).
Toggles(n) ==
    {i \in DOMAIN log : log[i].engine = n
                        /\ log[i].method \in {"enable_engine", "disable_engine"}}
LastAsked(n) ==
    IF Toggles(n) = {} THEN TRUE
    ELSE log[CHOOSE i \in Toggles(n) : \A j \in Toggles(n) : j <= i].method = "enable_engine"

\* C12: after any sequence of enable_engine / disable_engine calls each engine's
\* flag is what the last call on it asked for (so repeating a call changes nothing
\* and a re-enabled engine counts as enabled again); get_enabled_engines and the
\* fan-out of search_all are exactly the engines whose flag is set, each queried
\* once; and no result of search_all carries the tag of a disabled engine.
C12_FanOutIsTheEnabledSet ==
    /\ (pc = "idle" \/ SearchedAll) => \A n \in DOMAIN engines : engines[n].enabled = LastAsked(n)
    /\ {get_enabled_engines(engines)[i] : i \in DOMAIN get_enabled_engines(engines)} = Enabled
    /\ SearchedAll =>
         /\ Queried = Enabled
         /\ Len(searched) = Cardinality(Enabled)
         /\ \A i \in DOMAIN Results : Results[i].engine \in Enabled

\* e1 was disabled, then enabled again, and the search_all after that queries it
\* and e2.
C12_Witness ==
    /\ SearchedAll
    /\ Len(log) = 2
    /\ log[1] = [method |-> "disable_engine", engine |-> "e1"]
    /\ log[2] = [method |-> "enable_engine", engine |-> "e1"]
    /\ Queried = {"e1", "e2"}
    /\ \E i \in DOMAIN Results : Results[i].engine = "e1"

\* C13: search_all with no engine enabled (an empty registry included) answers
\* with a success whose result list is empty and whose total is 0; it is never
\* an error and nothing is fetched.
C13_NoEnabledEngineIsEmptySuccess ==
    (SearchedAll /\ Enabled = {}) =>
        /\ response.error = NoError
        /\ response.result.success
        /\ Results = <<>>
        /\ response.result.count = 0
        /\ response.result.results_by_engine = <<>>
        /\ fetches = 0

\* search_all answered on an empty registry.
C13_Witness ==
    /\ SearchedAll
    /\ DOMAIN engines = {}
    /\ response.result.success
    /\ response.result.count = 0

\* How each engine's search went in the call just answered (an engine that was
\* not queried gets an outcome that is never looked at).
Went ==
    [n \in Discovered |->
       IF n \in Queried THEN (CHOOSE i \in DOMAIN searched : searched[i].engine = n)
       ELSE 0]
WentOutcomes ==
    [n \in Discovered |->
       IF n \in Queried THEN searched[Went[n]].oc ELSE [path |-> "direct_fail", raw |-> <<>>]]
Without(engs, n) == [m \in DOMAIN engs \ {n} |-> engs[m]]
Failed(i) == searched[i].oc.path \in FailPaths

\* C14: when an engine queried by search_all fails (its adapter raises or its
\* fetch fails), the call still succeeds, every other enabled engine is still
\* queried, and the merged results are those the same call gives on a registry
\* without the failing engine.
C14_FailureIsIsolated ==
    SearchedAll =>
        \A i \in DOMAIN searched :
            Failed(i) =>
                /\ response.error = NoError
                /\ response.result.success
                /\ Queried = Enabled
                /\ Results = RegistrySearchAll(Without(engines, searched[i].engine),
                                               WentOutcomes).results

\* e1 raises, e2 returns a result: the response holds e2's result.
C14_Witness ==
    /\ SearchedAll
    /\ Len(searched) = 2
    /\ searched[1].engine = "e1" /\ searched[1].oc.path = "request_raises"
    /\ searched[2].oc.path \in OkPaths
    /\ Len(Results) = 1
    /\ Results[1].engine = "e2"

\* C15: the response of search_all reports a status for every engine it
\* queried. The only per-engine part of the response is results_by_engine.
C15_StatusForEveryTarget ==
    SearchedAll => \A n \in Queried : n \in DOMAIN response.result.results_by_engine

\* C16: a search_all that directly follows an identical search_all is answered
\* without a second fan-out.
C16_RepeatedSearchAllIsNotFetched ==
    (SearchedAll /\ Len(log) > 0 /\ log[Len(log)].method = "search_all") =>
        /\ fetches = 0
        /\ searched = <<>>


----------------------------------------------------------------------------
(* orchestrator/services/cache_service.py: CacheService._generate_cache_key *)
(* Text is a sequence of characters; the fixed labels of the key string     *)
(* each count as one character.                                             *)

MaxQuery == 2
MaxNames == 2

\* The characters of the model in code point order (which sorted() and the
\* digest go by).
CharOrder == <<" ", ",", "A", "a", "b", "l", "query:", "|categories:", "|engines:">>
Rank(c) == CHOOSE i \in DOMAIN CharOrder : CharOrder[i] = c

QueryChars == {" ", "A", "a"}
Queries == UNION {[1..n -> QueryChars] : n \in 0..MaxQuery}
EngineNames == {<<"a">>, <<"b">>, <<"a", ",", "b">>}
CategoryNames == {<<"a">>, <<"b">>}
\* A list argument; the empty one also stands for None, which the code treats
\* alike.
ListsOf(names) == UNION {[1..n -> names] : n \in 0..MaxNames}
Requests == [query : Queries, engines : ListsOf(EngineNames), categories : ListsOf(CategoryNames)]

\* str.lower and str.strip
lower(text) == [i \in DOMAIN text |-> IF text[i] = "A" THEN "a" ELSE text[i]]
RECURSIVE lstrip(_)
lstrip(text) == IF text # <<>> /\ Head(text) = " " THEN lstrip(Tail(text)) ELSE text
RECURSIVE rstrip(_)
rstrip(text) ==
    IF text # <<>> /\ text[Len(text)] = " " THEN rstrip(SubSeq(text, 1, Len(text) - 1))
    ELSE text
strip(text) == rstrip(lstrip(text))

\* str < str
RECURSIVE Before(_, _)
Before(x, y) ==
    IF x = <<>> THEN y # <<>>
    ELSE IF y = <<>> THEN FALSE
    ELSE IF Head(x) # Head(y) THEN Rank(Head(x)) < Rank(Head(y))
    ELSE Before(Tail(x), Tail(y))

\* sorted() that leaves the list as it is.
sorted_Unsorted(names) == names

\* sorted(names)
RECURSIVE sorted(_)
sorted(names) ==
    IF names = <<>> THEN <<>>
    ELSE LET rest == sorted(Tail(names))
             lo == SelectSeq(rest, LAMBDA n : Before(n, Head(names)))
             hi == SelectSeq(rest, LAMBDA n : ~Before(n, Head(names)))
         IN lo \o <<Head(names)>> \o hi

\* ",".join(names)
RECURSIVE join(_)
join(names) ==
    IF names = <<>> THEN <<>>
    ELSE IF Len(names) = 1 THEN names[1]
    ELSE names[1] \o <<",">> \o join(Tail(names))

\* hashlib.md5(...).hexdigest()[:16]: a digest of fixed width, the same for
\* the same text.
RECURSIVE md5(_, _)
md5(text, h) ==
    IF text = <<>> THEN h ELSE md5(Tail(text), (h * 31 + Rank(Head(text))) % 2^24)

\* The text _generate_cache_key hashes.
key_string(query, engine_list, category_list) ==
    LET query_lower == strip(lower(query))
        engines_str ==
            IF engine_list # <<>> THEN join(sorted(engine_list)) ELSE <<"a", "l", "l">>
        categories_str ==
            IF category_list # <<>> THEN join(sorted(category_list)) ELSE <<"a", "l", "l">>
    IN <<"query:">> \o query_lower \o <<"|engines:">> \o engines_str
       \o <<"|categories:">> \o categories_str

generate_cache_key(query, engine_list, category_list) ==
    <<"search:v1:", md5(key_string(query, engine_list, category_list), 0)>>

KeyOf(r) == generate_cache_key(r.query, r.engines, r.categories)
\* The two calls and what each made: the request, the text hashed, the key.
Keyed(a, b) ==
    [a |-> a, sa |-> key_string(a.query, a.engines, a.categories), ka |-> KeyOf(a),
     b |-> b, sb |-> key_string(b.query, b.engines, b.categories), kb |-> KeyOf(b)]

\* The key of a request is generated, then the keys of requests that differ
\* from it in ways a caller would not think of as a difference.
InitKeyOver(requests) ==
    /\ \E r \in requests : keyed = Keyed(r, r)
    /\ redis_client = FALSE
    /\ redis = <<>>
    /\ clock = 0
    /\ last = <<>>
    /\ nops = 0
    /\ pc = "key"
    /\ handlers = {}
    /\ engines = NoEngines
    /\ pending = 0
    /\ line = NoLine
    /\ request = NoRequest
    /\ response = NoResponse
    /\ stdout = <<>>
    /\ stderr = 0
    /\ invoked = 0
    /\ fetches = 0
    /\ searched = <<>>
    /\ Discovery_Over
    /\ log = <<>>
    /\ Others_Unused

InitKey == InitKeyOver(Requests)

\* _generate_cache_key is called with request r in place of the second one.
GenerateFor(r) ==
    /\ keyed' = Keyed(keyed.a, r)
    /\ UNCHANGED <<loopVars, discoverVars, serviceVars, fanVars, connectorVars, getterVars,
                   redis_client, redis, clock, last, nops>>

Swapped(names, i) ==
    [k \in DOMAIN names |-> IF k = i THEN names[i + 1] ELSE IF k = i + 1 THEN names[i] ELSE names[k]]

\* The same engines in another order.
ReorderEngines ==
    \E i \in 1..(Len(keyed.b.engines) - 1) :
        GenerateFor([keyed.b EXCEPT !.engines = Swapped(keyed.b.engines, i)])

\* The same categories in another order.
ReorderCategories ==
    \E i \in 1..(Len(keyed.b.categories) - 1) :
        GenerateFor([keyed.b EXCEPT !.categories = Swapped(keyed.b.categories, i)])

\* One letter of the query in the other case.
ChangeCase ==
    \E i \in DOMAIN keyed.b.query :
        /\ keyed.b.query[i] \in {"a", "A"}
        /\ GenerateFor([keyed.b EXCEPT !.query[i] = IF @ = "a" THEN "A" ELSE "a"])

\* A blank more or less at either end of the query.
ChangePadding ==
    \E q \in {<<" ">> \o keyed.b.query, keyed.b.query \o <<" ">>,
              lstrip(keyed.b.query), rstrip(keyed.b.query)} :
        /\ q # keyed.b.query
        /\ Len(q) <= MaxQuery
        /\ GenerateFor([keyed.b EXCEPT !.query = q])

NextKey ==
    \/ ReorderEngines
    \/ ReorderCategories
    \/ ChangeCase
    \/ ChangePadding

SpecKey == InitKey /\ [][NextKey]_vars

\* C18: requests that differ only in the order of the engines, the order of the
\* categories, the case of the query or blanks around the query get the same
\* cache key, and every key is the prefix search:v1: followed by a digest.
C18_KeyIgnoresOrderCaseAndPadding ==
    pc = "key" =>
        /\ keyed.ka = keyed.kb
        /\ keyed.ka[1] = "search:v1:" /\ Len(keyed.ka) = 2
        /\ keyed.kb[1] = "search:v1:" /\ Len(keyed.kb) = 2

\* " A" for engines a,b and "a " for engines b,a get one key.
C18_Witness ==
    /\ pc = "key"
    /\ keyed.a.query = <<" ", "A">> /\ keyed.b.query = <<"a", " ">>
    /\ keyed.a.engines = <<<<"a">>, <<"b">>>> /\ keyed.b.engines = <<<<"b">>, <<"a">>>>
    /\ keyed.a.categories = <<<<"b">>, <<"a">>>> /\ keyed.b.categories = <<<<"a">>, <<"b">>>>
    /\ keyed.ka = keyed.kb

\* Requests that differ from one another: engines named "all" and "a,b" are
\* among the names, as a SearXNG instance does not restrict engine names.
PairedNames == {<<"a">>, <<"b">>, <<"a", ",", "b">>, <<"a", "l", "l">>}
PairedRequests ==
    [query : {<<"a">>, <<"b">>, <<"A", " ">>},
     engines : ListsOf(PairedNames),
     categories : {<<>>, <<<<"a">>>>}]

InitKeyPairs == InitKeyOver(PairedRequests)

\* _generate_cache_key has been called for one request and is now called for
\* any other.
GenerateAnother ==
    /\ keyed.b = keyed.a
    /\ \E r \in PairedRequests : GenerateFor(r)

SpecKeyPairs == InitKeyPairs /\ [][GenerateAnother]_vars

NamesIn(list) == {list[i] : i \in DOMAIN list}

\* C29: two requests that differ in the normalized query, in the set of engines
\* or in the set of categories are hashed from different texts.
C29_DifferentRequestsDifferentKeyStrings ==
    (\/ strip(lower(keyed.a.query)) # strip(lower(keyed.b.query))
     \/ NamesIn(keyed.a.engines) # NamesIn(keyed.b.engines)
     \/ NamesIn(keyed.a.categories) # NamesIn(keyed.b.categories))
    => keyed.sa # keyed.sb


----------------------------------------------------------------------------
(* orchestrator/services/cache_service.py: CacheService on a Redis database *)

\* Steps of a run: calls made on the service, and times the clock moves on.
MaxOps == 3
\* The constructor's defaults.
default_ttl == 3600
max_results_per_query == 100

\* Requests callers ask about: the first two differ in case and padding only.
CacheRequests ==
    {[query |-> <<"a">>, engines |-> <<>>, categories |-> <<>>],
     [query |-> <<" ", "A">>, engines |-> <<>>, categories |-> <<>>],
     [query |-> <<"a">>, engines |-> <<<<"b">>>>, categories |-> <<>>]}

\* A results dict handed to set: its 'results' list (if it has that key) and
\* one more member, whose value is a JSON type ("int"), a value json.dumps
\* writes as another type ("tuple", read back as "list"), or one it rejects.
Dict(n, has_results, extra) ==
    [results |-> [i \in 1..n |-> i], has_results |-> has_results, extra |-> extra, truncated |-> FALSE,
     cached_at |-> -1, cache_ttl |-> 0, cache_key |-> <<>>]
\* ... each with the ttl argument it is set with (0 for None or 0).
SetArgs ==
    {[results |-> Dict(n, TRUE, "int"), ttl |-> t] :
        n \in {1, max_results_per_query + 1}, t \in {0, 1}}
    \cup {[results |-> Dict(1, TRUE, x), ttl |-> 0] : x \in {"tuple", "datetime"}}
    \cup {[results |-> Dict(0, FALSE, "int"), ttl |-> 0],
          [results |-> Dict(1, TRUE, "int"), ttl |-> -1]}
NoData == Dict(0, FALSE, "none")

\* set that cuts the list of the dict it was handed, without copying it first.
Capped_InPlace(results) ==
    LET cut == IF results.has_results /\ Len(results.results) > max_results_per_query
               THEN [results EXCEPT !.results = SubSeq(@, 1, max_results_per_query),
                                    !.truncated = TRUE]
               ELSE results
    IN [local |-> cut, callers |-> cut]

\* set's cap on the list: the dict its local name is bound to afterwards, and
\* the caller's dict. An overlong list is cut in a copy of the dict.
Capped(results) ==
    [local |-> IF results.has_results /\ Len(results.results) > max_results_per_query
               THEN [results EXCEPT !.results = SubSeq(@, 1, max_results_per_query),
                                    !.truncated = TRUE]
               ELSE results,
     callers |-> results]

\* What set writes for results under key at time now, as get reads it back.
CacheData(results, ttl, key, now) ==
    [Capped(results).local EXCEPT
        !.cached_at = now, !.cache_ttl = ttl, !.cache_key = key,
        !.extra = IF @ = "tuple" THEN "list" ELSE @]

\* The keys redis.keys(pattern) returns: cache entries, the stats hash and the
\* popularity set, the last two present once something was written to them.
NoStats == [hits |-> 0, misses |-> 0, sets |-> 0]
Patterns == {"", "search:v1:*", "*", "cache:*"}
Matching(pattern) ==
    [entries |-> IF pattern \in {"search:v1:*", "*"} THEN DOMAIN redis.entries ELSE {},
     stats |-> pattern \in {"cache:*", "*"} /\ redis.stats # NoStats,
     popular |-> pattern = "*" /\ DOMAIN redis.popular # {}]

\* invalidate without a pattern deletes every key.
DefaultPattern_Everything == "*"

\* invalidate without a pattern
DefaultPattern == "search:v1:*"

NoOp == [op |-> "none", seq |-> 0, query |-> <<>>, key |-> <<>>, pattern |-> "",
         given |-> NoData, arg |-> NoData, ttl |-> 0, fail |-> 0,
         returned |-> NoData, ok |-> FALSE, count |-> 0, raised |-> FALSE,
         hit_rate |-> 0]

\* CacheService() has been constructed: _connect got through to Redis and kept
\* the client, or failed and set it to None.
InitCache ==
    /\ redis = [entries |-> <<>>, stats |-> NoStats, popular |-> <<>>]
    /\ redis_client \in BOOLEAN
    /\ clock = 0
    /\ last = NoOp
    /\ nops = 0
    /\ keyed = <<>>
    /\ pc = "cache"
    /\ handlers = {}
    /\ engines = NoEngines
    /\ pending = 0
    /\ line = NoLine
    /\ request = NoRequest
    /\ response = NoResponse
    /\ stdout = <<>>
    /\ stderr = 0
    /\ invoked = 0
    /\ fetches = 0
    /\ searched = <<>>
    /\ Discovery_Over
    /\ log = <<>>
    /\ Others_Unused

nonCacheVars == <<loopVars, discoverVars, serviceVars, fanVars, connectorVars, getterVars, keyed>>

\* A second or an hour passes; Redis drops the entries whose time is up.
Tick ==
    /\ nops < MaxOps
    /\ nops' = nops + 1
    /\ \E d \in {1, default_ttl} :
         /\ clock' = clock + d
         /\ redis' = [redis EXCEPT !.entries =
                        [k \in {x \in DOMAIN @ : @[x].expires > clock + d} |-> @[k]]]
    /\ UNCHANGED <<nonCacheVars, redis_client, last>>

\* A service call begins: fail says which of its Redis commands raises (0: none).
\* With the server away the first one does; a later one does when the server
\* is lost on the way. Without a client no command is issued.
Begins(fail) ==
    /\ nops < MaxOps
    /\ nops' = nops + 1
    /\ ~redis_client => fail = 0
    /\ UNCHANGED <<nonCacheVars, redis_client, clock>>


\* The keys of the requests, generated once.
CacheKey == [r \in CacheRequests |-> KeyOf(r)]

Put(f, k, v) == [x \in DOMAIN f \cup {k} |-> IF x = k THEN v ELSE f[x]]
Count(f, k) == IF k \in DOMAIN f THEN f[k] ELSE 0

\* get without its except clause: the error reaches the caller.
GetOnError_Propagates == [returned |-> NoData, raised |-> TRUE]

\* get's except clause logs the error; the method then returns None.
GetOnError == [returned |-> NoData, raised |-> FALSE]

\* CacheService.get(query, engines, categories)
Get(r, fail) ==
    /\ Begins(fail)
    /\ LET key == CacheKey[r]
           done == [NoOp EXCEPT !.op = "get", !.seq = nops + 1, !.key = key]
           caught == [done EXCEPT !.fail = fail, !.returned = GetOnError.returned,
                                  !.raised = GetOnError.raised]
       IN IF ~redis_client THEN last' = done /\ redis' = redis
          ELSE IF fail \in {1, 2} THEN last' = caught /\ redis' = redis
          ELSE IF key \in DOMAIN redis.entries
          THEN /\ last' = [done EXCEPT !.returned = redis.entries[key].data, !.ok = TRUE]
               /\ redis' = [redis EXCEPT !.stats.hits = @ + 1]
          ELSE /\ last' = done
               /\ redis' = [redis EXCEPT !.stats.misses = @ + 1]

\* CacheService.set(query, results, engines, categories, ttl)
Set(r, a, fail) ==
    /\ Begins(fail)
    /\ LET key == CacheKey[r]
           ttl == IF a.ttl = 0 THEN default_ttl ELSE a.ttl
           done == [NoOp EXCEPT !.op = "set", !.seq = nops + 1, !.query = r.query,
                                !.key = key, !.given = a.results,
                                !.arg = IF redis_client THEN Capped(a.results).callers
                                        ELSE a.results,
                                !.ttl = ttl]
           stored == [redis EXCEPT !.entries =
                        Put(@, key, [data |-> CacheData(a.results, ttl, key, clock),
                                     expires |-> clock + ttl])]
           counted == [stored EXCEPT !.stats.sets = @ + 1]
       IN IF ~redis_client THEN last' = done /\ redis' = redis
          ELSE IF a.results.extra = "datetime" \/ (fail # 1 /\ ttl < 0)
          THEN last' = done /\ redis' = redis
          ELSE CASE fail = 1 -> last' = [done EXCEPT !.fail = 1] /\ redis' = redis
                 [] fail = 2 -> last' = [done EXCEPT !.fail = 2] /\ redis' = stored
                 [] fail = 3 -> last' = [done EXCEPT !.fail = 3] /\ redis' = counted
                 [] OTHER ->
                      /\ last' = [done EXCEPT !.ok = TRUE]
                      /\ redis' = [counted EXCEPT !.popular =
                                     Put(@, r.query, Count(@, r.query) + 1)]

\* CacheService.invalidate(pattern)
Invalidate(pattern, fail) ==
    /\ Begins(fail)
    /\ LET done == [NoOp EXCEPT !.op = "invalidate", !.seq = nops + 1, !.pattern = pattern]
           keys == Matching(IF pattern # "" THEN pattern ELSE DefaultPattern)
           n == Cardinality(keys.entries) + (IF keys.stats THEN 1 ELSE 0)
                + (IF keys.popular THEN 1 ELSE 0)
       IN IF ~redis_client THEN last' = done /\ redis' = redis
          ELSE IF fail = 1 \/ (fail = 2 /\ n > 0)
          THEN last' = [done EXCEPT !.fail = fail] /\ redis' = redis
          ELSE /\ last' = [done EXCEPT !.count = n, !.ok = TRUE]
               /\ redis' = [redis EXCEPT
                    !.entries = [k \in DOMAIN @ \ keys.entries |-> @[k]],
                    !.stats = IF keys.stats THEN NoStats ELSE @,
                    !.popular = IF keys.popular THEN <<>> ELSE @]

\* _calculate_hit_rate: hits / total * 100 rounded to two decimals, given here
\* times 100 (5000 is the float 50.0).
calculate_hit_rate(stats) ==
    LET total == stats.hits + stats.misses IN
    IF total = 0 THEN 0
    ELSE (2 * stats.hits * 100 * 100 + total) \div (2 * total)

\* CacheService.get_stats()
GetStats(fail) ==
    /\ Begins(fail)
    /\ redis' = redis
    /\ LET done == [NoOp EXCEPT !.op = "get_stats", !.seq = nops + 1] IN
         IF ~redis_client THEN last' = done
         ELSE IF fail = 1 THEN last' = [done EXCEPT !.fail = 1]
         ELSE last' = [done EXCEPT !.ok = TRUE,
                                   !.count = Cardinality(DOMAIN redis.entries),
                                   !.hit_rate = calculate_hit_rate(redis.stats)]

NextCache ==
    \/ \E fail \in 0..1 : GetStats(fail)
    \/ Tick
    \/ \E r \in CacheRequests, fail \in 0..2 : Get(r, fail)
    \/ \E r \in CacheRequests, a \in SetArgs, fail \in 0..3 : Set(r, a, fail)
    \/ \E pattern \in Patterns, fail \in 0..2 : Invalidate(pattern, fail)

SpecCache == InitCache /\ [][NextCache]_vars


\* This step is a call of the service's method op (and not the clock's).
Calls(op) == nops' = nops + 1 /\ last'.seq = nops' /\ last'.op = op
\* ... made with a client and with every Redis command answered.
CallsThrough(op) == Calls(op) /\ redis_client /\ last'.fail = 0
\* ... made without a client (the constructor could not connect) or with a
\* Redis command that raises.
CallsInVain(op) == Calls(op) /\ (~redis_client \/ last'.fail > 0)

\* C17: a get that follows a successful set of the same key, with the entry
\* not yet expired and no set or invalidate in between, returns a value equal
\* to the results that were set (a dict of JSON values whose list is within
\* the cap).
C17_GetReturnsWhatWasSet ==
    [][(/\ CallsThrough("get")
        /\ last.op = "set" /\ last.ok
        /\ last.key = last'.key
        /\ last.key \in DOMAIN redis.entries
        /\ last.arg.has_results /\ last.arg.extra = "int"
        /\ Len(last.arg.results) <= max_results_per_query)
       => last'.returned = last.arg]_vars

C20_InvalidateAllRemovesTheEntriesOnly ==
    [][/\ (CallsThrough("invalidate") /\ last'.pattern = "") =>
            /\ \A k \in DOMAIN redis.entries : k[1] = "search:v1:"
            /\ DOMAIN redis'.entries = {}
            /\ last'.count = Cardinality(DOMAIN redis.entries)
            /\ redis'.stats = redis.stats
            /\ redis'.popular = redis.popular
       /\ (Calls("get") /\ last'.key \notin DOMAIN redis.entries) => last'.returned = NoData
       /\ ~(DOMAIN redis'.entries \subseteq DOMAIN redis.entries) => Calls("set")]_vars

\* Two entries were set and an invalidate without pattern removed both; the
\* set counter still says 2.
C20_Witness ==
    /\ last.op = "invalidate" /\ last.pattern = "" /\ last.ok
    /\ last.count = 2
    /\ DOMAIN redis.entries = {}
    /\ redis.stats.sets = 2
    /\ DOMAIN redis.popular # {}

Min(a, b) == IF a < b THEN a ELSE b

\* C26: no entry in Redis holds more than max_results_per_query results. A
\* set that returns True has stored the first max_results_per_query results of
\* the dict it was given, marked truncated exactly when the dict had more, has
\* raised the sets counter and the popularity of the query as typed by one
\* each and no other popularity, and has left the caller's dict as it was.
C26_SetCapsWhatItStores ==
    [][/\ \A k \in DOMAIN redis'.entries :
             Len(redis'.entries[k].data.results) <= max_results_per_query
       /\ (Calls("set") /\ last'.ok /\ last'.given.has_results) =>
             LET given == last'.given
                 stored == redis'.entries[last'.key].data
             IN /\ stored.results =
                     SubSeq(given.results, 1, Min(Len(given.results), max_results_per_query))
                /\ stored.truncated = (Len(given.results) > max_results_per_query)
                /\ redis'.stats.sets = redis.stats.sets + 1
                /\ DOMAIN redis'.popular = DOMAIN redis.popular \cup {last'.query}
                /\ \A q \in DOMAIN redis'.popular :
                      redis'.popular[q] = Count(redis.popular, q)
                                          + (IF q = last'.query THEN 1 ELSE 0)
                /\ last'.arg = given]_vars

\* A dict with one result more than the cap has been set under the query
\* " A", after a set of "a": the entry holds the first hundred.
C26_Witness ==
    /\ last.op = "set" /\ last.ok
    /\ last.query = <<" ", "A">>
    /\ Len(last.given.results) = max_results_per_query + 1
    /\ Len(redis.entries[last.key].data.results) = max_results_per_query
    /\ redis.entries[last.key].data.truncated
    /\ redis.popular = (<<"a">> :> 1) @@ (<<" ", "A">> :> 1)
    /\ redis.stats.sets = 2

\* C27: get_stats reports a hit rate between 0 and 1 that is hits divided by
\* hits + misses (to the precision it is rounded to), and 0 when no get has
\* been counted. last.hit_rate is the reported number times 100, so a
\* reported 1 is 100 there and "to the precision" is half a unit.
C27_HitRateIsTheFractionOfHits ==
    (last.op = "get_stats" /\ last.ok) =>
        LET total == redis.stats.hits + redis.stats.misses
            reported == last.hit_rate
        IN /\ total = 0 => reported = 0
           /\ reported <= 100
           /\ total > 0 =>
                 /\ 2 * reported * total <= 2 * 100 * redis.stats.hits + total
                 /\ 2 * reported * total >= 2 * 100 * redis.stats.hits - total

----------------------------------------------------------------------------
(* cache_service.py: get as its two Redis commands, issued by callers that *)
(* share the server (worker threads or processes of the orchestrator).     *)

Callers == {"c1", "c2"}
Outside == [at |-> "out", key |-> <<>>, cached_data |-> NoData]

\* CacheService() has connected; nobody is inside get.
InitGetters ==
    /\ redis = [entries |-> <<>>, stats |-> NoStats, popular |-> <<>>]
    /\ redis_client = TRUE
    /\ clock = 0
    /\ last = NoOp
    /\ nops = 0
    /\ keyed = <<>>
    /\ pc = "cache"
    /\ handlers = {}
    /\ engines = NoEngines
    /\ pending = 0
    /\ line = NoLine
    /\ request = NoRequest
    /\ response = NoResponse
    /\ stdout = <<>>
    /\ stderr = 0
    /\ invoked = 0
    /\ fetches = 0
    /\ searched = <<>>
    /\ Discovery_Over
    /\ log = <<>>
    /\ FanOut_Idle
    /\ Connector_Unused
    /\ getters = [local |-> [c \in Callers |-> Outside], found |-> 0, missed |-> 0,
                  together |-> FALSE]

\* HINCRBY with a field that is set rather than incremented.
Hincrby_Hset(stats, field) == [stats EXCEPT ![field] = 1]

\* redis_client.hincrby("cache:stats", field, 1): one command, atomic in Redis.
Hincrby(stats, field) == [stats EXCEPT ![field] = @ + 1]

\* Caller c enters get for request r: cached_data = redis_client.get(cache_key).
GetRead(c, r) ==
    /\ nops < MaxOps
    /\ nops' = nops + 1
    /\ getters.local[c].at = "out"
    /\ LET key == CacheKey[r] IN
         getters' = [getters EXCEPT !.local[c] =
                       [at |-> "read", key |-> key,
                        cached_data |-> IF key \in DOMAIN redis.entries
                                        THEN redis.entries[key].data ELSE NoData],
                                       !.together =
                                          @ \/ \E d \in Callers \ {c} : getters.local[d].at = "read"]
    /\ UNCHANGED <<loopVars, discoverVars, serviceVars, fanVars, connectorVars, keyed,
                   redis_client, redis, clock, last>>

\* Caller c goes on: it counts a hit and returns the entry, or counts a miss
\* and returns None.
GetCount(c) ==
    /\ getters.local[c].at = "read"
    /\ LET hit == getters.local[c].cached_data # NoData IN
         /\ redis' = [redis EXCEPT !.stats = Hincrby(@, IF hit THEN "hits" ELSE "misses")]
         /\ getters' = [getters EXCEPT !.local[c] = Outside,
                                       !.found = IF hit THEN @ + 1 ELSE @,
                                       !.missed = IF hit THEN @ ELSE @ + 1]
    /\ UNCHANGED <<loopVars, discoverVars, serviceVars, fanVars, connectorVars, keyed,
                   redis_client, clock, last, nops>>

NextGetters ==
    \/ Tick
    \/ \E r \in CacheRequests, a \in SetArgs : Set(r, a, 0)
    \/ \E c \in Callers, r \in CacheRequests : GetRead(c, r)
    \/ \E c \in Callers : GetCount(c)

SpecGetters == InitGetters /\ [][NextGetters]_vars

\* C25: with Redis answering, the hits counter is the number of finished gets
\* that returned an entry and the misses counter the number that returned a
\* miss, however the gets of the callers interleave with each other and with
\* sets and expiry; their sum is the number of finished gets.
C25_EveryGetCountsOnce ==
    /\ redis.stats.hits = getters.found
    /\ redis.stats.misses = getters.missed

\* Both callers were inside get at the same time, one came out with the entry
\* and one with a miss.
C25_Witness ==
    /\ getters.found = 1
    /\ getters.missed = 1
    /\ redis.stats.hits + redis.stats.misses = 2
    /\ \A c \in Callers : getters.local[c].at = "out"
    /\ getters.together

----------------------------------------------------------------------------
(* engine_registry.py: search_all step by step, on a registry that a second *)
(* thread (another protocol loop of the same process) toggles engines on.  *)
(* Python switches threads between bytecodes and while a fetch waits, so a *)
(* toggle can land between any two steps of the loop.                      *)

InitFanOut ==
    /\ pc = "fan_idle"
    /\ handlers = ServiceMethods
    /\ engines \in Registries
    /\ log = <<>>
    /\ Cache_Unused
    /\ Others_Unused
    /\ pending = 0
    /\ line = NoLine
    /\ request = NoRequest
    /\ response = NoResponse
    /\ stdout = <<>>
    /\ stderr = 0
    /\ invoked = 0
    /\ fetches = 0
    /\ searched = <<>>
    /\ Discovery_Over

nonFanVars == <<handlers, pending, line, request, stdout, stderr, invoked,
                fetches, discoverVars, cacheVars, connectorVars, getterVars>>

\* Longest result list one engine returns within a search_all.
MaxMerged == 2
FanOutcomes == OutcomesOver(ListsUpTo(MaxMerged))

\* handle_search_all calls search_all: the for statement evaluates
\* get_enabled_engines() once.
Resolve ==
    /\ pc = "fan_idle"
    /\ Len(log) < MaxCalls
    /\ targets' = get_enabled_engines(engines)
    /\ cursor' = 1
    /\ all_results' = <<>>
    /\ searched' = <<>>
    /\ response' = NoResponse
    /\ pc' = "fan_loop"
    /\ UNCHANGED <<engines, log, nonFanVars>>

\* The loop reaches engine j of the list and calls search, whose guard reads
\* the registry as it is now; the ValueError of a failed guard is caught by
\* the loop, which moves on.
Begin(j) ==
    /\ pc = "fan_loop"
    /\ cursor = j
    /\ j <= Len(targets)
    /\ IF Reaches(engines, targets[j])
       THEN pc' = "fan_fetch" /\ UNCHANGED cursor
       ELSE cursor' = j + 1 /\ UNCHANGED pc
    /\ UNCHANGED <<engines, targets, all_results, searched, log, response, nonFanVars>>

\* The search in flight ends under outcome oc; what it returns is appended.
Settle(oc) ==
    /\ pc = "fan_fetch"
    /\ LET r == SearchBody(targets[cursor], oc) IN
         all_results' = all_results \o (IF r.raised THEN <<>> ELSE r.results)
    /\ searched' = Append(searched, [engine |-> targets[cursor], oc |-> oc])
    /\ cursor' = cursor + 1
    /\ pc' = "fan_loop"
    /\ UNCHANGED <<engines, targets, log, response, nonFanVars>>

\* The list is exhausted: search_all returns all_results, and
\* handle_search_all builds its answer from them.
FanReturn ==
    /\ pc = "fan_loop"
    /\ cursor > Len(targets)
    /\ response' = ResponseSuccess(SearchAllResult([results |-> all_results]), "int:7")
    /\ log' = Append(log, [method |-> "search_all", engine |-> Absent])
    /\ pc' = "fan_idle"
    /\ targets' = <<>>
    /\ cursor' = 0
    /\ all_results' = <<>>
    /\ UNCHANGED <<engines, searched, nonFanVars>>

\* The other thread handles enable_engine or disable_engine for a known engine.
Toggle(name, flag) ==
    /\ Len(log) < MaxCalls
    /\ name \in DOMAIN engines
    /\ engines' = WithEnabled(engines, name, flag)
    /\ log' = Append(log, [method |-> IF flag THEN "enable_engine" ELSE "disable_engine",
                           engine |-> name])
    /\ UNCHANGED <<pc, targets, cursor, all_results, searched, response, nonFanVars>>

NextFanOut ==
    \/ Resolve
    \/ \E j \in 1..Len(EngineOrder) : Begin(j)
    \/ \E oc \in FanOutcomes : Settle(oc)
    \/ FanReturn
    \/ \E name \in Discovered, flag \in BOOLEAN : Toggle(name, flag)

SpecFanOut == InitFanOut /\ [][NextFanOut]_vars

Targets == {targets[i] : i \in DOMAIN targets}
LoopOver == pc = "fan_loop" /\ cursor > Len(targets)

\* C21: a search_all queries exactly the engines that were enabled when it
\* resolved its list, whatever is toggled while it runs.
C21_ToggleLeavesFanOutAlone == LoopOver => Queried = Targets

\* C22: while one engine's search is in flight, the next engine of the list can
\* start its own: no pipeline waits for another to settle.
C22_PipelinesStartIndependently ==
    (pc = "fan_fetch" /\ cursor < Len(targets)) => ENABLED Begin(cursor + 1)

----------------------------------------------------------------------------
(* The engine tag of the results, in the protocol loop                     *)

\* What the adapters run for one request brought back, item by item, each with
\* the engine that had been asked for it.
RECURSIVE Brought(_)
Brought(probes) ==
    IF probes = <<>> THEN <<>>
    ELSE LET p == Head(probes) IN
         (IF p.oc.path \in OkPaths
          THEN [k \in DOMAIN p.oc.raw |-> [asked |-> p.engine, item |-> p.oc.raw[k]]]
          ELSE <<>>)
         \o Brought(Tail(probes))

SearchAnswered ==
    /\ pc = "send"
    /\ response.error = NoError
    /\ response.result.handler \in {"search", "search_all"}
    /\ response.result.success

\* C23: every result in the response of search or search_all carries the name
\* of the engine that was asked for it, whichever path of search obtained it
\* and whatever tag the adapter or the backend had put on it.
C23_ResultsCarryTheQueriedEngine ==
    SearchAnswered =>
        /\ Len(Results) = Len(Brought(searched))
        /\ \A k \in DOMAIN Results : Results[k].engine = Brought(searched)[k].asked
        /\ response.result.handler = "search" =>
              \A k \in DOMAIN Results : Results[k].engine = request.params.engine

\* A search of e1 through the adapter without a fetch: the adapter's result
\* came tagged "other" and is returned tagged "e1".
C23_Witness ==
    /\ SearchAnswered
    /\ response.result.handler = "search"
    /\ Len(searched) = 1
    /\ searched[1].oc.path = "nofetch_ok"
    /\ Len(searched[1].oc.raw) = 1
    /\ searched[1].oc.raw[1].engine = "other"
    /\ Len(Results) = 1
    /\ Results[1].engine = "e1"

----------------------------------------------------------------------------
(* The frame of the engine handlers, on the service called directly        *)

Answers(methods) == pc = "handle" /\ pc' = "send" /\ request.method \in methods
Asked == request.params.engine

\* C28: get_engine_info, enable_engine and disable_engine asked about a name
\* that is not in the registry answer success = False, "not found", and leave
\* the registry as it was; get_engine_info never changes it; a toggle of a
\* registered engine sets that engine's flag and changes nothing else.
C28_HandlersTouchOnlyTheNamedEngine ==
    [][/\ (Answers({"get_engine_info", "enable_engine", "disable_engine"})
           /\ Asked \notin DOMAIN engines) =>
             /\ response'.error = NoError
             /\ ~response'.result.success
             /\ response'.result.error = "Engine not found"
             /\ engines' = engines
       /\ Answers({"get_engine_info"}) => engines' = engines
       /\ (Answers({"enable_engine", "disable_engine"}) /\ Asked \in DOMAIN engines) =>
             /\ response'.result.success
             /\ DOMAIN engines' = DOMAIN engines
             /\ engines'[Asked] = [engines[Asked] EXCEPT
                                     !.enabled = (request.method = "enable_engine")]
             /\ \A n \in DOMAIN engines \ {Asked} : engines'[n] = engines[n]]_vars

\* e1 was disabled and e2 left alone; disable_engine("ghost") has just been
\* answered with "not found", the flags being what they were.
C28_Witness ==
    /\ pc = "send"
    /\ request.method = "disable_engine"
    /\ request.params.engine = "ghost"
    /\ ~response.result.success
    /\ response.result.error = "Engine not found"
    /\ DOMAIN engines = {"e1", "e2"}
    /\ ~engines["e1"].enabled
    /\ engines["e2"].enabled
    /\ Len(log) = 1 /\ log[1].method = "disable_engine" /\ log[1].engine = "e1"

----------------------------------------------------------------------------
(* The merged list of search_all and its grouping                          *)

FanAnswered == pc = "fan_idle" /\ response.result.handler = "search_all"
Groups == response.result.results_by_engine

RECURSIVE SumOfSizes(_, _)
SumOfSizes(groups, names) ==
    IF names = {} THEN 0
    ELSE LET n == CHOOSE m \in names : TRUE IN
         Len(groups[n]) + SumOfSizes(groups, names \ {n})

\* C24: the results of search_all are the lists the engines returned, one
\* after the other in the order the engines were queried and each in its own
\* order; results_by_engine holds, for every engine tag among them, the results
\* with that tag in the order of the merged list; total_count is the length of
\* the merged list and the sum of the sizes of the groups.
C24_MergeIsConcatenationAndGroupsPartitionIt ==
    FanAnswered =>
        /\ Len(Results) = Len(Brought(searched))
        /\ \A k \in DOMAIN Results :
              Results[k] = [Brought(searched)[k].item EXCEPT
                              !.engine = Brought(searched)[k].asked]
        /\ DOMAIN Groups = {Results[k].engine : k \in DOMAIN Results}
        /\ \A e \in DOMAIN Groups :
              Groups[e] = SelectSeq(Results, LAMBDA x : x.engine = e)
        /\ response.result.count = Len(Results)
        /\ response.result.count = SumOfSizes(Groups, DOMAIN Groups)

\* e1 returned two different results and e2 one: three results in that order,
\* in two groups.
C24_Witness ==
    /\ FanAnswered
    /\ Len(searched) = 2
    /\ searched[1].engine = "e1" /\ Len(searched[1].oc.raw) = 2
    /\ searched[1].oc.raw[1] # searched[1].oc.raw[2]
    /\ searched[2].engine = "e2" /\ Len(searched[2].oc.raw) = 1
    /\ Len(Results) = 3
    /\ Results[3].engine = "e2"
    /\ Len(Groups["e1"]) = 2

----------------------------------------------------------------------------
(* integration/engine_bridge_connector.py: EngineBridgeConnector            *)

\* Longest engines argument of unified_search, and most results the SearXNG
\* page parser returns in the model (min(result_count, 10) in the code).
MaxEngines == 2
MaxHits == 2

\* _get_searxng_engines(), as far as the model's names go.
SearxngEngines == {"google"}
\* Names a caller may pass: a SearXNG engine, a custom engine, a name nobody
\* knows, and a value that is not hashable.
EngineArgNames == {"google", "e1", "ghost", Unhashable}
EngineLists == UNION {[1..n -> EngineArgNames] : n \in 0..MaxEngines}

\* What the SearXNG task ends with: the parsed page, or the exception of a
\* failed request.
TaskRaised == [raised |-> TRUE, results |-> <<>>, engines_used |-> {}, engine_results |-> {}]
SearxngOutcomes ==
    {TaskRaised}
    \cup {[raised |-> FALSE, results |-> [i \in 1..n |-> "searxng"],
           engines_used |-> u, engine_results |-> {}] :
            n \in 0..MaxHits, u \in {{}, {"google"}}}

\* _search_single_engine: registry.search is called without its params
\* argument, the TypeError is caught and the engine contributes nothing.
search_single_engine(engine_name) == <<>>

\* _search_custom_async from engine i of the list on.
RECURSIVE CustomFrom(_, _, _)
CustomFrom(registry, engine_list, i) ==
    IF i > Len(engine_list) THEN [results |-> <<>>, engine_results |-> {}]
    ELSE LET rest == CustomFrom(registry, engine_list, i + 1)
             result == IF engine_list[i] \in registry
                       THEN search_single_engine(engine_list[i]) ELSE <<>>
         IN IF result = <<>> THEN rest
            ELSE [results |-> result \o rest.results,
                  engine_results |-> {engine_list[i]} \cup rest.engine_results]

\* The custom task: a name that is not hashable makes the lookup in the
\* registry raise, otherwise the task returns its dict.
search_custom_async(registry, engine_list) ==
    IF \E i \in DOMAIN engine_list : engine_list[i] = Unhashable
    THEN TaskRaised
    ELSE LET r == CustomFrom(registry, engine_list, 1) IN
         [raised |-> FALSE, results |-> r.results, engines_used |-> {},
          engine_results |-> r.engine_results]

Pending == [status |-> "pending", count |-> 0, engines |-> {}]

\* The tasks unified_search appends, in order.
Tasks(registry, engine_list) ==
    (IF engine_list = <<>> \/ \E i \in DOMAIN engine_list : engine_list[i] \in SearxngEngines
     THEN <<"searxng">> ELSE <<>>)
    \o (IF engine_list # <<>> \/ registry # {} THEN <<"custom">> ELSE <<>>)

\* engines if engines else list(self.registry.engines.keys())
CustomEngines(registry, engine_list) ==
    IF engine_list # <<>> THEN engine_list
    ELSE IF "e1" \in registry THEN <<"e1">> ELSE <<>>

\* How unified_search reads search_results[position] into sources.searxng
\* (position 1, the engines from 'engines_used') and sources.custom (position
\* 2, the engines from 'engine_results').
Processed(search_results, position) ==
    IF Len(search_results) < position THEN Pending
    ELSE IF search_results[position].raised THEN [Pending EXCEPT !.status = "error"]
    ELSE [status |-> "success", count |-> Len(search_results[position].results),
          engines |-> IF position = 1 THEN search_results[position].engines_used
                      ELSE search_results[position].engine_results]

Extended(search_results, position) ==
    IF Len(search_results) >= position /\ ~search_results[position].raised
    THEN search_results[position].results ELSE <<>>

\* unified_search(query, categories, engines) on a connector whose registry
\* holds the given custom engines, the SearXNG task ending as sx says.
unified_search(registry, engine_list, sx) ==
    LET tasks == Tasks(registry, engine_list)
        custom_engines == CustomEngines(registry, engine_list)
        search_results ==
            [i \in DOMAIN tasks |->
               IF tasks[i] = "searxng" THEN sx
               ELSE search_custom_async(registry, custom_engines)]
        results == Extended(search_results, 1) \o Extended(search_results, 2)
    IN [results |-> results,
        sources |-> [searxng |-> Processed(search_results, 1),
                     custom |-> Processed(search_results, 2)],
        errors |-> Cardinality({i \in DOMAIN search_results : search_results[i].raised}),
        total_count |-> Len(results)]

\* EngineBridgeConnector() has been constructed; no call has been made.
NoCall == [registry |-> {}, engines |-> <<>>, tasks |-> <<>>, sx |-> <<>>, custom |-> <<>>,
           returned |-> <<>>]

InitConnector ==
    /\ unified = NoCall
    /\ pc = "connector"
    /\ handlers = {}
    /\ engines = NoEngines
    /\ pending = 0
    /\ line = NoLine
    /\ request = NoRequest
    /\ response = NoResponse
    /\ stdout = <<>>
    /\ stderr = 0
    /\ invoked = 0
    /\ fetches = 0
    /\ searched = <<>>
    /\ Discovery_Over
    /\ log = <<>>
    /\ Cache_Unused
    /\ FanOut_Idle
    /\ Getters_None

\* One call of unified_search; sx is what the SearXNG task ends with if it is
\* started.
UnifiedSearch(registry, engine_list, sx) ==
    /\ ("searxng" \notin {Tasks(registry, engine_list)[i] :
                             i \in DOMAIN Tasks(registry, engine_list)})
          => sx = TaskRaised
    /\ unified' =
         [registry |-> registry, engines |-> engine_list,
          tasks |-> Tasks(registry, engine_list),
          sx |-> sx,
          custom |-> search_custom_async(registry, CustomEngines(registry, engine_list)),
          returned |-> unified_search(registry, engine_list, sx)]
    /\ UNCHANGED <<loopVars, discoverVars, serviceVars, cacheVars, fanVars, getterVars>>

NextConnector ==
    \E registry \in SUBSET {"e1"}, engine_list \in EngineLists, sx \in SearxngOutcomes :
        UnifiedSearch(registry, engine_list, sx)

SpecConnector == InitConnector /\ [][NextConnector]_vars

Started(task) == \E i \in DOMAIN unified.tasks : unified.tasks[i] = task
StatusOf(outcome) == IF outcome.raised THEN "error" ELSE "success"

\* C30: after unified_search, sources.searxng is pending if the SearXNG task
\* was not started and otherwise has the status and the result count of that
\* task; sources.custom likewise for the custom task; and total_count is the
\* number of merged results.
C30_EachSourceReflectsItsOwnTask ==
    unified # NoCall =>
        LET sources == unified.returned.sources IN
        /\ IF Started("searxng")
           THEN /\ sources.searxng.status = StatusOf(unified.sx)
                /\ sources.searxng.count = Len(unified.sx.results)
           ELSE sources.searxng = Pending
        /\ IF Started("custom")
           THEN /\ sources.custom.status = StatusOf(unified.custom)
                /\ sources.custom.count = Len(unified.custom.results)
           ELSE sources.custom = Pending
        /\ unified.returned.total_count = Len(unified.returned.results)

====
